---- MODULE Spec2Model ----
(***************************************************************************)
(* Offline-first notes service: the local record store (local_db.py,      *)
(* models.py), the sync manager (sync_manager.py) and the notes handlers  *)
(* of the web application (app.py).                                       *)
(*                                                                         *)
(* Python None is the empty sequence <<>> and a present value v is <<v>>. *)
(* A stored tags string is a sequence of one-character strings, so that   *)
(* ','.join and str.split(',') are computed rather than assumed.          *)
(* Not modelled: the search filter of get_notes, the created_at column,    *)
(* and failures of the database itself (the except/rollback branches of   *)
(* LocalDB).                                                               *)
(***************************************************************************)
EXTENDS Integers, Sequences, FiniteSets, TLC

\* ---------------------------------------------------------------- bounds
MaxNotes == 2      \* rows the notes table may hold
MaxClock == 1      \* largest value datetime.utcnow() returns
MaxCalls == 4      \* store calls made from the foreground
MaxAppCalls == 2   \* of these, calls made while the sync manager runs
MaxThreads == 2    \* Thread objects start_sync_loop may create
MaxApiCalls == 5   \* store calls made by the request handlers of app.py

\* ---------------------------------------------------------------- inputs
Owners == {1, 2}
\* (title, content, tags) of create calls
NewNotes ==
    {[title |-> "X", content |-> "A", tags |-> << <<"a">>, <<"b">> >>]}

None == <<>>
Some(v) == <<v>>

VARIABLES
    notes,       \* the notes table: row id (1..Len) -> row
    muts,        \* history: successful update/delete calls per row id
    now,         \* the last value datetime.utcnow() returned
    calls,       \* history: number of foreground store calls made
    last,        \* the latest foreground store call, with its return value
    auth_token,  \* SyncManager.auth_token
    is_online,   \* SyncManager.is_online
    stop_event,  \* SyncManager.stop_event: TRUE when set
    sync_thread, \* SyncManager.sync_thread: None or Some(index into threads)
    threads,     \* every Thread created, in order: where it is in _sync_loop
    caller,      \* the threads that call start_sync_loop / stop_sync_loop
    asked,       \* history: "start" once start_sync_loop has returned, "stop"
                 \* from the moment stop_sync_loop is called after that
    cyc,         \* locals of the sync_all call in progress
    sent,        \* history: push requests of the latest sync cycle
    answers,     \* history: the answer to each of them
    outcome,     \* history: how the latest sync cycle went
    began,       \* history: the store when the latest sync cycle began
    owed,        \* history: ids of the notes whose push failed in the cycle
                 \* before the latest one and that it has not sent so far
    reqs         \* the request threads of app.py: where each is in its handler,
                 \* and the response to the latest request it served

storeVars == <<notes, muts, now, calls, last>>
engineVars == <<auth_token, is_online, stop_event, sync_thread, threads, caller, asked>>
cycleVars == <<cyc, sent, answers, outcome, began, owed>>
vars == <<notes, muts, now, calls, last, auth_token, is_online, stop_event,
          sync_thread, threads, caller, asked, cyc, sent, answers, outcome, began,
          owed, reqs>>

\* ------------------------------------------------------- models.py: Note
\* ','.join(tags) if tags else ''
RECURSIVE JoinTags(_)
JoinTags(tags) ==
    IF tags = <<>> THEN <<>>
    ELSE IF Len(tags) = 1 THEN tags[1]
    ELSE tags[1] \o <<",">> \o JoinTags(Tail(tags))

\* s.split(',') for a non-empty s
RECURSIVE SplitComma(_, _)
SplitComma(s, cur) ==
    IF s = <<>> THEN <<cur>>
    ELSE IF Head(s) = "," THEN <<cur>> \o SplitComma(Tail(s), <<>>)
    ELSE SplitComma(Tail(s), Append(cur, Head(s)))

\* self.tags.split(',') if self.tags else []
SplitTags(s) == IF s = <<>> THEN <<>> ELSE SplitComma(s, <<>>)

\* Note.to_dict(): synced_at is not part of the dictionary
ToDict(ns, id) ==
    [id |-> id,
     user_id |-> ns[id].user_id,
     title |-> ns[id].title,
     content |-> ns[id].content,
     tags |-> SplitTags(ns[id].tags),
     updated_at |-> ns[id].updated_at,
     version |-> ns[id].version,
     is_deleted |-> ns[id].is_deleted]

\* datetime.utcnow(): a reading not before the last one; two readings taken
\* one after the other may be equal
Readings(from) == {t \in from..(from + 1) : t <= MaxClock}

\* ids in ascending order as a sequence
RECURSIVE SeqOfIds(_)
SeqOfIds(S) ==
    IF S = {} THEN <<>>
    ELSE LET m == CHOOSE x \in S : \A y \in S : x <= y
         IN <<m>> \o SeqOfIds(S \ {m})

\* ------------------------------------------------------ local_db.LocalDB
\* Note.query.filter_by(id=, user_id=, is_deleted=False).first()
LiveRow(ns, note_id, user_id) ==
    /\ note_id \in DOMAIN ns
    /\ ns[note_id].user_id = user_id
    /\ ns[note_id].is_deleted = FALSE

\* the same query without the user_id filter
AnyRowOfAnyUser(ns, note_id, user_id) ==
    note_id \in DOMAIN ns

\* Note.query.filter_by(id=, user_id=).first()
AnyRow(ns, note_id, user_id) ==
    /\ note_id \in DOMAIN ns
    /\ ns[note_id].user_id = user_id

\* create_note: the row is inserted with version 1, synced_at NULL,
\* is_deleted False and updated_at from the column default
create_note(ns, user_id, title, content, tags, t) ==
    Append(ns, [user_id |-> user_id,
                title |-> title,
                content |-> content,
                tags |-> JoinTags(tags),
                updated_at |-> t,
                synced_at |-> None,
                version |-> 1,
                is_deleted |-> FALSE])

\* get_note
get_note(ns, note_id, user_id) ==
    IF LiveRow(ns, note_id, user_id) THEN Some(ToDict(ns, note_id)) ELSE None

\* get_notes without a search query: rows of the user that are not deleted,
\* ORDER BY updated_at DESC (rows of equal updated_at in id order)
RECURSIVE ByUpdatedDesc(_, _)
ByUpdatedDesc(ns, S) ==
    IF S = {} THEN <<>>
    ELSE LET m == CHOOSE x \in S : \A y \in S :
                     \/ ns[x].updated_at > ns[y].updated_at
                     \/ ns[x].updated_at = ns[y].updated_at /\ x <= y
         IN <<ToDict(ns, m)>> \o ByUpdatedDesc(ns, S \ {m})

get_notes(ns, user_id) ==
    ByUpdatedDesc(ns, {id \in DOMAIN ns :
                          ns[id].user_id = user_id /\ ns[id].is_deleted = FALSE})

\* update_note without `note.version += 1`
update_note_SameVersion(ns, note_id, user_id, title, content, tags, t) ==
    IF ~LiveRow(ns, note_id, user_id) THEN ns
    ELSE [ns EXCEPT ![note_id] =
            [@ EXCEPT !.title = IF title # None THEN title[1] ELSE @,
                      !.content = IF content # None THEN content[1] ELSE @,
                      !.tags = IF tags # None THEN JoinTags(tags[1]) ELSE @,
                      !.updated_at = t]]

\* update_note: title/content/tags are None (left alone) or Some(value)
update_note(ns, note_id, user_id, title, content, tags, t) ==
    IF ~LiveRow(ns, note_id, user_id) THEN ns
    ELSE [ns EXCEPT ![note_id] =
            [@ EXCEPT !.title = IF title # None THEN title[1] ELSE @,
                      !.content = IF content # None THEN content[1] ELSE @,
                      !.tags = IF tags # None THEN JoinTags(tags[1]) ELSE @,
                      !.updated_at = t,
                      !.version = @ + 1]]

\* delete_note: the query does not filter on is_deleted
delete_note(ns, note_id, user_id, t) ==
    IF ~AnyRow(ns, note_id, user_id) THEN ns
    ELSE [ns EXCEPT ![note_id] =
            [@ EXCEPT !.is_deleted = TRUE,
                      !.updated_at = t,
                      !.version = @ + 1]]

\* the WHERE clause of get_unsynced_notes
Unsynced(ns, id) ==
    \/ ns[id].synced_at = None
    \/ ns[id].updated_at > ns[id].synced_at[1]

UnsyncedIds(ns, user_id) ==
    {id \in DOMAIN ns : ns[id].user_id = user_id /\ Unsynced(ns, id)}

\* get_unsynced_notes
RECURSIVE DictsOf(_, _)
DictsOf(ns, ids) ==
    IF ids = <<>> THEN <<>>
    ELSE <<ToDict(ns, Head(ids))>> \o DictsOf(ns, Tail(ids))

get_unsynced_notes(ns, user_id) == DictsOf(ns, SeqOfIds(UnsyncedIds(ns, user_id)))

\* mark_synced: synced_at is assigned utcnow() (reading t); the UPDATE that
\* the commit flushes does not set updated_at, so the column's
\* onupdate=datetime.utcnow (models.py) fills it with a later reading u
mark_synced(ns, note_id, t, u) ==
    IF note_id \notin DOMAIN ns THEN ns
    ELSE [ns EXCEPT ![note_id] =
            [@ EXCEPT !.synced_at = Some(t),
                      !.updated_at = u]]

\* ------------------------------------------------- store calls as actions
Call(op, id, user_id, ret) == [op |-> op, id |-> id, user_id |-> user_id, ret |-> ret]

Foreground ==
    /\ calls < MaxCalls
    /\ calls' = calls + 1

CreateNote(user_id, title, content, tags) ==
    /\ Foreground
    /\ UNCHANGED <<engineVars, cycleVars, reqs>>
    /\ Len(notes) < MaxNotes
    /\ \E t \in Readings(now) :
         /\ notes' = create_note(notes, user_id, title, content, tags, t)
         /\ now' = t
    /\ muts' = Append(muts, 0)
    /\ last' = Call("create_note", Len(notes) + 1, user_id,
                    Some(ToDict(notes', Len(notes) + 1)))

GetNotes(user_id) ==
    /\ Foreground
    /\ UNCHANGED <<engineVars, cycleVars, reqs>>
    /\ last' = Call("get_notes", 0, user_id, get_notes(notes, user_id))
    /\ UNCHANGED <<notes, muts, now>>

GetNote(note_id, user_id) ==
    /\ Foreground
    /\ UNCHANGED <<engineVars, cycleVars, reqs>>
    /\ last' = Call("get_note", note_id, user_id, get_note(notes, note_id, user_id))
    /\ UNCHANGED <<notes, muts, now>>

UpdateNote(note_id, user_id, title, content, tags) ==
    /\ Foreground
    /\ UNCHANGED <<engineVars, cycleVars, reqs>>
    /\ IF LiveRow(notes, note_id, user_id)
       THEN /\ \E t \in Readings(now) :
                 /\ notes' = update_note(notes, note_id, user_id, title, content, tags, t)
                 /\ now' = t
            /\ muts' = [muts EXCEPT ![note_id] = @ + 1]
            /\ last' = Call("update_note", note_id, user_id, Some(ToDict(notes', note_id)))
       ELSE /\ last' = Call("update_note", note_id, user_id, None)
            /\ UNCHANGED <<notes, muts, now>>

DeleteNote(note_id, user_id) ==
    /\ Foreground
    /\ UNCHANGED <<engineVars, cycleVars, reqs>>
    /\ IF AnyRow(notes, note_id, user_id)
       THEN /\ \E t \in Readings(now) :
                 /\ notes' = delete_note(notes, note_id, user_id, t)
                 /\ now' = t
            /\ muts' = [muts EXCEPT ![note_id] = @ + 1]
            /\ last' = Call("delete_note", note_id, user_id, TRUE)
       ELSE /\ last' = Call("delete_note", note_id, user_id, FALSE)
            /\ UNCHANGED <<notes, muts, now>>

GetUnsyncedNotes(user_id) ==
    /\ Foreground
    /\ UNCHANGED <<engineVars, cycleVars, reqs>>
    /\ last' = Call("get_unsynced_notes", 0, user_id, get_unsynced_notes(notes, user_id))
    /\ UNCHANGED <<notes, muts, now>>

MarkSynced(note_id) ==
    /\ Foreground
    /\ UNCHANGED <<engineVars, cycleVars, reqs>>
    /\ IF note_id \in DOMAIN notes
       THEN \E t \in Readings(now) : \E u \in Readings(t) :
              /\ notes' = mark_synced(notes, note_id, t, u)
              /\ now' = u
       ELSE UNCHANGED <<notes, now>>
    /\ last' = Call("mark_synced", note_id, 0, None)
    /\ UNCHANGED muts

\* ids of calls: every row and one id that names no row
NoteIds == 1..(Len(notes) + 1)
\* (title, content, tags) of update calls; None leaves the field alone
Patches ==
    {[title |-> None, content |-> Some("B"), tags |-> Some(<<>>)]}

StoreInit ==
    /\ notes = <<>>
    /\ muts = <<>>
    /\ now = 0
    /\ calls = 0
    /\ last = Call("none", 0, 0, None)

\* ------------------------------------------------ sync_manager.SyncManager
\* the threads that call the manager's lifecycle methods
Callers == {1, 2}
Idle == [pc |-> "idle", th |-> 0]

\* set_auth_token
SetAuthToken(token) ==
    /\ auth_token' = Some(token)
    /\ UNCHANGED <<storeVars, is_online, stop_event, sync_thread, threads, caller, asked,
                   cycleVars, reqs>>

\* Thread.is_alive()
IsAlive(th) == threads[th] # "dead"

\* start_sync_loop, the test `self.sync_thread and self.sync_thread.is_alive()`:
\* the call returns at once when it holds
StartCheck(c) ==
    /\ caller[c].pc = "idle"
    /\ IF sync_thread # None /\ IsAlive(sync_thread[1])
       THEN /\ asked' = "start"
            /\ UNCHANGED caller
       ELSE /\ caller' = [caller EXCEPT ![c].pc = "spawn"]
            /\ UNCHANGED asked
    /\ UNCHANGED <<storeVars, auth_token, is_online, stop_event, sync_thread, threads, cycleVars,
                   reqs>>

\* start_sync_loop, after the test: clear the event, create and start the thread
StartSpawn(c) ==
    /\ caller[c].pc = "spawn"
    /\ Len(threads) < MaxThreads
    /\ stop_event' = FALSE
    /\ threads' = Append(threads, "top")
    /\ sync_thread' = Some(Len(threads) + 1)
    /\ caller' = [caller EXCEPT ![c] = Idle]
    /\ asked' = "start"
    /\ UNCHANGED <<storeVars, auth_token, is_online, cycleVars, reqs>>

\* stop_sync_loop: set the event, then join(timeout=5) the thread, if any
Stop(c) ==
    /\ caller[c].pc = "idle"
    /\ stop_event' = TRUE
    /\ caller' = IF sync_thread # None
                 THEN [caller EXCEPT ![c] = [pc |-> "join", th |-> sync_thread[1]]]
                 ELSE caller
    /\ asked' = "stop"
    /\ UNCHANGED <<storeVars, auth_token, is_online, sync_thread, threads, cycleVars, reqs>>

\* join(timeout=5) returns: the thread has ended, or the five seconds are over
StopReturn(c, timed_out) ==
    /\ caller[c].pc = "join"
    /\ timed_out \/ ~IsAlive(caller[c].th)
    /\ caller' = [caller EXCEPT ![c] = Idle]
    /\ UNCHANGED <<storeVars, auth_token, is_online, stop_event, sync_thread, threads, asked,
                   cycleVars, reqs>>

\* _get_user_id_from_token
UserIdFromToken == 1

NoCycle == [unsynced |-> <<>>, i |-> 0, user_id |-> 0]

\* history: the ids of the notes whose push in the latest sync cycle ended in a
\* RequestException (status 0) or in a status that is neither 200, 201 nor 409
FailedPushes ==
    {sent[k].id : k \in {j \in DOMAIN answers : answers[j].status \in {0, 500}}}

\* _sync_loop with `while True` in place of its test of stop_event
LoopTop_IgnoresStop(l, probe) ==
    /\ threads[l] = "top"
    /\ is_online' = probe
    /\ IF probe /\ auth_token # None
       THEN LET unsynced == get_unsynced_notes(notes, UserIdFromToken)
            IN /\ cyc' = [unsynced |-> unsynced, i |-> 1, user_id |-> UserIdFromToken]
               /\ sent' = <<>>
               /\ answers' = <<>>
               /\ outcome' = "running"
               /\ began' = [calls |-> calls, rows |-> Len(notes),
                            unsynced |-> Len(unsynced)]
               /\ owed' = FailedPushes
               /\ threads' = [threads EXCEPT ![l] =
                                 IF unsynced = <<>> THEN "pull" ELSE "push"]
       ELSE /\ threads' = [threads EXCEPT ![l] = "wait"]
            /\ UNCHANGED cycleVars
    /\ UNCHANGED <<storeVars, auth_token, stop_event, sync_thread, caller, asked, reqs>>

\* _sync_loop without its `elif self.is_online` branch: sync_all is called only
\* by a tick that finds the manager back online
LoopTop_OnReconnectOnly(l, probe) ==
    /\ threads[l] = "top"
    /\ IF stop_event
       THEN /\ threads' = [threads EXCEPT ![l] = "dead"]
            /\ UNCHANGED <<is_online, cycleVars>>
       ELSE /\ is_online' = probe
            /\ IF probe /\ ~is_online /\ auth_token # None
               THEN LET unsynced == get_unsynced_notes(notes, UserIdFromToken)
                    IN /\ cyc' = [unsynced |-> unsynced, i |-> 1, user_id |-> UserIdFromToken]
                       /\ sent' = <<>>
                       /\ answers' = <<>>
                       /\ outcome' = "running"
                       /\ began' = [calls |-> calls, rows |-> Len(notes),
                                    unsynced |-> Len(unsynced)]
                       /\ owed' = FailedPushes
                       /\ threads' = [threads EXCEPT ![l] =
                                         IF unsynced = <<>> THEN "pull" ELSE "push"]
               ELSE /\ threads' = [threads EXCEPT ![l] = "wait"]
                    /\ UNCHANGED cycleVars
    /\ UNCHANGED <<storeVars, auth_token, stop_event, sync_thread, caller, asked, reqs>>

\* _sync_loop, one evaluation of `while not self.stop_event.is_set()` and, when
\* it holds, the probe and the entry of sync_all up to get_unsynced_notes.
\* Both branches of the if/elif call sync_all when the probe succeeded.
LoopTop(l, probe) ==
    /\ threads[l] = "top"
    /\ IF stop_event
       THEN /\ threads' = [threads EXCEPT ![l] = "dead"]
            /\ UNCHANGED <<is_online, cycleVars>>
       ELSE /\ is_online' = probe
            /\ IF probe /\ auth_token # None
               THEN LET unsynced == get_unsynced_notes(notes, UserIdFromToken)
                    IN /\ cyc' = [unsynced |-> unsynced, i |-> 1, user_id |-> UserIdFromToken]
                       /\ sent' = <<>>
                       /\ answers' = <<>>
                       /\ outcome' = "running"
                       /\ began' = [calls |-> calls, rows |-> Len(notes),
                                    unsynced |-> Len(unsynced)]
                       /\ owed' = FailedPushes
                       /\ threads' = [threads EXCEPT ![l] =
                                         IF unsynced = <<>> THEN "pull" ELSE "push"]
               ELSE /\ threads' = [threads EXCEPT ![l] = "wait"]
                    /\ UNCHANGED cycleVars
    /\ UNCHANGED <<storeVars, auth_token, stop_event, sync_thread, caller, asked, reqs>>

\* the HTTP answer to a request: status 0 stands for requests.RequestException
\* (no answer), body is the 'note' entry of the JSON body or None without one
Answer(status, body) == [status |-> status, body |-> body]

\* the record a 409 carries: the remote's copy of the note, edited remotely
RemoteCopy(note, version) ==
    [id |-> note.id, user_id |-> note.user_id, title |-> "R", content |-> "C",
     tags |-> << <<"r">> >>, version |-> version, is_deleted |-> FALSE]

PushAnswers(note) ==
    {Answer(st, None) : st \in {0, 200, 201, 500, 409}}
    \cup {Answer(409, Some(RemoteCopy(note, v))) :
             v \in {w \in (note.version - 1)..(note.version + 1) : w >= 1}}

\* _force_push: the requests it sends
force_push(note) == <<>>

\* _accept_server_version
accept_server_version(ns, server_note) == ns

\* _create_conflict_copy
create_conflict_copy(ns, local_note, server_note, t) ==
    accept_server_version(
        create_note(ns, local_note.user_id, local_note.title \o " (Conflict Copy)",
                    local_note.content, local_note.tags, t),
        server_note)

\* _handle_conflict, given a body that carries a note: what it does to the
\* notes table (the branch for a newer local note calls _force_push)
handle_conflict(ns, local_note, server_note, t) ==
    IF local_note.version > server_note.version THEN ns
    ELSE IF local_note.version < server_note.version
         THEN accept_server_version(ns, server_note)
    ELSE create_conflict_copy(ns, local_note, server_note, t)

\* the method of the push request
PushMethod(note) == IF note.id > 0 THEN "PUT" ELSE "POST"

\* sync_all, one turn of `for note in unsynced_notes`: the request, its answer
\* and what the answer leads to. A 409 whose body has no 'note' makes
\* _handle_conflict subscript None: the TypeError is no RequestException, so
\* it leaves the for loop and is caught by the outer except of sync_all.
LoopPush(l, ans) ==
    /\ threads[l] = "push"
    /\ LET note == cyc.unsynced[cyc.i]
           raised == ans.status = 409 /\ ans.body = None
           more == cyc.i < Len(cyc.unsynced)
       IN /\ ans \in PushAnswers(note)
          /\ sent' = Append(sent, [method |-> PushMethod(note), id |-> note.id,
                                   version |-> note.version])
                      \o (IF ans.status = 409 /\ ans.body # None
                             /\ note.version > ans.body[1].version
                          THEN force_push(note) ELSE <<>>)
          /\ answers' = Append(answers, ans)
          /\ owed' = owed \ {note.id}
          /\ IF ans.status = 200
             THEN \E t \in Readings(now) : \E u \in Readings(t) :
                     /\ notes' = mark_synced(notes, note.id, t, u)
                     /\ now' = u
                     /\ muts' = muts
             ELSE IF ans.status = 409 /\ ans.body # None
             THEN IF note.version = ans.body[1].version
                  THEN /\ Len(notes) < MaxNotes
                       /\ \E t \in Readings(now) :
                            /\ notes' = handle_conflict(notes, note, ans.body[1], t)
                            /\ now' = t
                       /\ muts' = Append(muts, 0)
                  ELSE /\ notes' = handle_conflict(notes, note, ans.body[1], now)
                       /\ UNCHANGED <<now, muts>>
             ELSE UNCHANGED <<notes, now, muts>>
          /\ IF raised
             THEN /\ threads' = [threads EXCEPT ![l] = "wait"]
                  /\ cyc' = NoCycle
                  /\ outcome' = "aborted"
             ELSE /\ threads' = [threads EXCEPT ![l] = IF more THEN "push" ELSE "pull"]
                  /\ cyc' = [cyc EXCEPT !.i = @ + 1]
                  /\ outcome' = outcome
    /\ UNCHANGED <<calls, last, auth_token, is_online, stop_event, sync_thread, caller, asked,
                   began, reqs>>

\* the records GET /notes may answer with
RemoteNote(id) ==
    [id |-> id, title |-> "R", content |-> IF id = 1 THEN "C" ELSE "D",
     tags |-> << <<"r">> >>]

RemoteLists == {<<>>, <<RemoteNote(9)>>, <<RemoteNote(1), RemoteNote(9)>>}

PullAnswers ==
    {Answer(st, None) : st \in {0, 500}} \cup {Answer(200, Some(rl)) : rl \in RemoteLists}

\* the for loop of _pull_from_server: local_ids is computed once, before it
RECURSIVE PullCreate(_, _, _, _, _)
PullCreate(ns, user_id, server_notes, local_ids, t) ==
    IF server_notes = <<>> THEN ns
    ELSE LET sn == Head(server_notes)
             ns1 == IF sn.id \notin local_ids
                    THEN create_note(ns, user_id, sn.title, sn.content, sn.tags, t)
                    ELSE ns
         IN PullCreate(ns1, user_id, Tail(server_notes), local_ids, t)

\* _pull_from_server
pull_from_server(ns, user_id, ans, t) ==
    IF ans.status # 200 THEN ns
    ELSE LET local_notes == get_notes(ns, user_id)
             local_ids == {local_notes[k].id : k \in DOMAIN local_notes}
         IN PullCreate(ns, user_id, ans.body[1], local_ids, t)

\* sync_all, the call of _pull_from_server that ends it
LoopPull(l, ans) ==
    /\ threads[l] = "pull"
    /\ ans \in PullAnswers
    /\ \E t \in Readings(now) :
         /\ notes' = pull_from_server(notes, cyc.user_id, ans, t)
         /\ Len(notes') <= MaxNotes
         /\ now' = IF notes' = notes THEN now ELSE t
    /\ muts' = muts \o [k \in 1..(Len(notes') - Len(notes)) |-> 0]
    /\ threads' = [threads EXCEPT ![l] = "wait"]
    /\ cyc' = NoCycle
    /\ outcome' = "pulled"
    /\ UNCHANGED <<calls, last, auth_token, is_online, stop_event, sync_thread, caller, asked,
                   sent, answers, began, owed, reqs>>

\* stop_event.wait(check_interval) returns: the event is set or the interval is over
LoopWake(l) ==
    /\ threads[l] = "wait"
    /\ threads' = [threads EXCEPT ![l] = "top"]
    /\ UNCHANGED <<storeVars, auth_token, is_online, stop_event, sync_thread, caller, asked,
                   cycleVars, reqs>>

\* --------------------------------------------- app.py: the request handlers
\* the threads of the web server, each serving one request at a time
Requests == {1, 2}

\* request.get_json(): a key that is missing is None
NoData == [version |-> None, title |-> None, content |-> None, tags |-> None]

\* a thread between two requests, with the response it gave last
Served(status, body) ==
    [pc |-> "idle", note_id |-> 0, user_id |-> 0, data |-> NoData,
     status |-> status, body |-> body]

\* `not x` for a string that may be missing
Falsy(x) == x = None \/ x = Some("")

\* bodies of POST /api/notes
PostBodies ==
    {[version |-> None, title |-> Some("X"), content |-> Some("A"),
      tags |-> Some(<< <<"a">> >>)],
     [version |-> None, title |-> Some(""), content |-> Some("A"), tags |-> None],
     [version |-> None, title |-> Some("X"), content |-> None, tags |-> None]}

\* bodies of PUT /api/notes/<note_id>
PutBodies ==
    {[version |-> v, title |-> t, content |-> Some("B"), tags |-> None] :
        v \in {None, Some(1), Some(2)}, t \in {None, Some("")}}

ApiCall ==
    /\ calls < MaxApiCalls
    /\ calls' = calls + 1

\* create_note (POST): validation, then LocalDB.create_note
AppCreateNote(r, user_id, data) ==
    /\ reqs[r].pc = "idle"
    /\ IF Falsy(data.title) \/ Falsy(data.content)
       THEN /\ reqs' = [reqs EXCEPT ![r] = Served(400, None)]
            /\ UNCHANGED storeVars
       ELSE /\ ApiCall
            /\ Len(notes) < MaxNotes
            /\ \E t \in Readings(now) :
                 /\ notes' = create_note(notes, user_id, data.title[1], data.content[1],
                                         IF data.tags = None THEN <<>> ELSE data.tags[1], t)
                 /\ now' = t
            /\ muts' = Append(muts, 0)
            /\ last' = Call("create_note", Len(notes) + 1, user_id,
                            Some(ToDict(notes', Len(notes) + 1)))
            /\ reqs' = [reqs EXCEPT ![r] = Served(201, last'.ret)]
    /\ UNCHANGED <<engineVars, cycleVars>>

\* update_note (PUT) up to its version test: LocalDB.get_note, 404 without a
\* note, 409 with the note when `version and current['version'] > version`
AppUpdateNoteCheck(r, note_id, user_id, data) ==
    /\ reqs[r].pc = "idle"
    /\ ApiCall
    /\ LET current == get_note(notes, note_id, user_id)
       IN /\ last' = Call("get_note", note_id, user_id, current)
          /\ reqs' = [reqs EXCEPT ![r] =
                IF current = None THEN Served(404, None)
                ELSE IF /\ data.version # None
                        /\ data.version[1] # 0
                        /\ current[1].version > data.version[1]
                     THEN Served(409, current)
                ELSE [pc |-> "write", note_id |-> note_id, user_id |-> user_id,
                      data |-> data, status |-> 0, body |-> None]]
    /\ UNCHANGED <<notes, muts, now, engineVars, cycleVars>>

\* update_note (PUT) after its version test: LocalDB.update_note and the 200
AppUpdateNoteWrite(r) ==
    /\ reqs[r].pc = "write"
    /\ ApiCall
    /\ LET q == reqs[r]
       IN IF LiveRow(notes, q.note_id, q.user_id)
          THEN /\ \E t \in Readings(now) :
                    /\ notes' = update_note(notes, q.note_id, q.user_id, q.data.title,
                                            q.data.content, q.data.tags, t)
                    /\ now' = t
               /\ muts' = [muts EXCEPT ![q.note_id] = @ + 1]
               /\ last' = Call("update_note", q.note_id, q.user_id,
                               Some(ToDict(notes', q.note_id)))
               /\ reqs' = [reqs EXCEPT ![r] = Served(200, last'.ret)]
          ELSE /\ last' = Call("update_note", q.note_id, q.user_id, None)
               /\ reqs' = [reqs EXCEPT ![r] = Served(200, None)]
               /\ UNCHANGED <<notes, muts, now>>
    /\ UNCHANGED <<engineVars, cycleVars>>

\* delete_note (DELETE): LocalDB.delete_note, 404 when it returns False
AppDeleteNote(r, note_id, user_id) ==
    /\ reqs[r].pc = "idle"
    /\ ApiCall
    /\ IF AnyRow(notes, note_id, user_id)
       THEN /\ \E t \in Readings(now) :
                 /\ notes' = delete_note(notes, note_id, user_id, t)
                 /\ now' = t
            /\ muts' = [muts EXCEPT ![note_id] = @ + 1]
            /\ last' = Call("delete_note", note_id, user_id, TRUE)
            /\ reqs' = [reqs EXCEPT ![r] = Served(200, None)]
       ELSE /\ last' = Call("delete_note", note_id, user_id, FALSE)
            /\ reqs' = [reqs EXCEPT ![r] = Served(404, None)]
            /\ UNCHANGED <<notes, muts, now>>
    /\ UNCHANGED <<engineVars, cycleVars>>

\* ------------------------------------------------------- specifications
\* SyncManager.__init__ and an empty notes table
Init ==
    /\ StoreInit
    /\ auth_token = None
    /\ is_online = FALSE
    /\ stop_event = FALSE
    /\ sync_thread = None
    /\ threads = <<>>
    /\ caller = [c \in Callers |-> Idle]
    /\ asked = "none"
    /\ cyc = NoCycle
    /\ sent = <<>>
    /\ answers = <<>>
    /\ outcome = "none"
    /\ began = [calls |-> 0, rows |-> 0, unsynced |-> 0]
    /\ owed = {}
    /\ reqs = [r \in Requests |-> Served(0, None)]

\* the answers the remote may give to the push request in turn
AllAnswers ==
    IF cyc.i \in DOMAIN cyc.unsynced THEN PushAnswers(cyc.unsynced[cyc.i]) ELSE {}

\* calls the request handlers of app.py make
AppNext ==
    \/ \E o \in Owners, n \in NewNotes : CreateNote(o, n.title, n.content, n.tags)
    \/ \E id \in NoteIds, o \in Owners, p \in Patches :
          UpdateNote(id, o, p.title, p.content, p.tags)
    \/ \E id \in NoteIds, o \in Owners : DeleteNote(id, o)

\* the store and a manager that one thread starts: the sync cycles
Next ==
    \/ calls < MaxAppCalls /\ AppNext
    \/ SetAuthToken("jwt")
    \/ StartCheck(1)
    \/ StartSpawn(1)
    \/ \E l \in DOMAIN threads, probe \in BOOLEAN : LoopTop(l, probe)
    \/ \E l \in DOMAIN threads, ans \in AllAnswers : LoopPush(l, ans)
    \/ \E l \in DOMAIN threads, ans \in PullAnswers : LoopPull(l, ans)
    \/ \E l \in DOMAIN threads : LoopWake(l)

Spec == Init /\ [][Next]_vars

\* every method of the store, called in any order
StoreNext ==
    \/ AppNext
    \/ \E o \in Owners : GetNotes(o)
    \/ \E id \in NoteIds, o \in Owners : GetNote(id, o)
    \/ \E o \in Owners : GetUnsyncedNotes(o)
    \/ \E id \in NoteIds : MarkSynced(id)

SpecStore == Init /\ [][StoreNext]_vars

\* a manager without a token whose lifecycle methods two threads call
NextConc ==
    \/ \E c \in Callers : StartCheck(c)
    \/ \E c \in Callers : StartSpawn(c)
    \/ \E c \in Callers : Stop(c)
    \/ \E c \in Callers, timed_out \in BOOLEAN : StopReturn(c, timed_out)
    \/ \E l \in DOMAIN threads, probe \in BOOLEAN : LoopTop(l, probe)
    \/ \E l \in DOMAIN threads : LoopWake(l)

SpecConc == Init /\ [][NextConc]_vars

\* the answers of a remote that accepts a push or cannot be reached, and that
\* lists one note or cannot be reached
LifePushAnswers == {ans \in AllAnswers : ans.body = None /\ ans.status \in {0, 200}}
LifePullAnswers ==
    {ans \in PullAnswers : ans.status = 0 \/ (ans.status = 200 /\ Len(ans.body[1]) = 1)}

\* a manager with a token that one thread starts and stops, the foreground idle
NextLife ==
    \/ SetAuthToken("jwt")
    \/ StartCheck(1)
    \/ StartSpawn(1)
    \/ Stop(1)
    \/ \E timed_out \in BOOLEAN : StopReturn(1, timed_out)
    \/ \E l \in DOMAIN threads, probe \in BOOLEAN : LoopTop(l, probe)
    \/ \E l \in DOMAIN threads, ans \in LifePushAnswers : LoopPush(l, ans)
    \/ \E l \in DOMAIN threads, ans \in LifePullAnswers : LoopPull(l, ans)
    \/ \E l \in DOMAIN threads : LoopWake(l)

\* what thread l of _sync_loop does without waiting for the check interval to
\* pass: every statement of the loop, every request (each has a timeout), and
\* stop_event.wait when the event is set
LoopRuns(l) ==
    /\ l \in DOMAIN threads
    /\ \/ \E probe \in BOOLEAN : LoopTop(l, probe)
       \/ \E ans \in LifePushAnswers : LoopPush(l, ans)
       \/ \E ans \in LifePullAnswers : LoopPull(l, ans)
       \/ stop_event /\ LoopWake(l)

\* a started thread is scheduled, and join(timeout=5) returns
Fairness ==
    /\ \A l \in 1..MaxThreads : WF_vars(LoopRuns(l))
    /\ WF_vars(\E timed_out \in BOOLEAN : StopReturn(1, timed_out))

SpecLife == Init /\ [][NextLife]_vars /\ Fairness

\* the request handlers of app.py, served by two threads for one user
NextApi ==
    \/ \E r \in Requests, data \in PostBodies : AppCreateNote(r, 1, data)
    \/ \E r \in Requests, id \in NoteIds, data \in PutBodies :
          AppUpdateNoteCheck(r, id, 1, data)
    \/ \E r \in Requests : AppUpdateNoteWrite(r)
    \/ \E r \in Requests, id \in NoteIds : AppDeleteNote(r, id, 1)

SpecApi == Init /\ [][NextApi]_vars

\* ----------------------------------------------------------------- claims
\* a step that is a foreground store call
ForegroundCall == calls' # calls

\* the step that ends a sync cycle, and the same with no foreground store
\* call made since the cycle began
CycleEnds == outcome = "running" /\ outcome' # "running"
QuietCycleEnds == CycleEnds /\ outcome' = "pulled" /\ calls' = began'.calls

\* the answer to the k-th push of the latest cycle is a 409 that carries a note
IsConflict(ans) == ans.status = 409 /\ ans.body # None

\* C1: a created note is in listUnsynced(owner) right after create, and after a
\* full sync cycle in which the remote answered its push with 200 or 201 (and
\* the note was not mutated after the engine read it) it is not in
\* listUnsynced(owner)
C1_SyncedAfterAcceptedPush ==
    [][/\ (ForegroundCall /\ last'.op = "create_note")
            => last'.id \in UnsyncedIds(notes', last'.user_id)
       /\ (CycleEnds /\ outcome' = "pulled")
            => \A k \in DOMAIN answers' :
                  (/\ answers'[k].status \in {200, 201}
                   /\ notes'[sent'[k].id].version = sent'[k].version)
                  => sent'[k].id \notin UnsyncedIds(notes', UserIdFromToken)]_vars

\* C2: a row's version is 1 plus the number of successful update/delete calls
\* applied to it: 1 after create, one more after each of them, and changed by
\* nothing else
C2_VersionCountsMutations ==
    /\ Len(muts) = Len(notes)
    /\ \A id \in DOMAIN notes : notes[id].version = 1 + muts[id]

\* C2 witness: a row updated, deleted and then marked synced
C2_Witness ==
    \E id \in DOMAIN notes :
        /\ muts[id] = 2
        /\ notes[id].is_deleted
        /\ notes[id].synced_at # None
        /\ last.op = "mark_synced" /\ last.id = id

\* C3: right after create or a successful update the row is in
\* listUnsynced(owner); right after markSynced(id) it is not; a mutation that
\* follows markSynced makes it unsynced again, also at an equal clock value
C3_UnsyncedTracksMutations ==
    [][ForegroundCall =>
        /\ (\/ last'.op = "create_note"
            \/ last'.op = "update_note" /\ last'.ret # None)
             => last'.id \in UnsyncedIds(notes', last'.user_id)
        /\ (last'.op = "mark_synced" /\ last'.id \in DOMAIN notes)
             => ~Unsynced(notes', last'.id)]_vars

\* C4: the first delete(id, owner) of a row of the owner returns true and
\* soft-deletes it; a delete of a row already deleted returns false and leaves
\* the row as it is
C4_DeleteIdempotent ==
    [][(/\ ForegroundCall
        /\ last'.op = "delete_note"
        /\ AnyRow(notes, last'.id, last'.user_id))
       => IF notes[last'.id].is_deleted
          THEN last'.ret = FALSE /\ notes' = notes
          ELSE last'.ret = TRUE /\ notes'[last'.id].is_deleted]_vars

\* C5: for a row r and an owner o other than r's, get(r.id, o) and
\* update(r.id, o, ..) return absent, delete(r.id, o) returns false, none of
\* them changes the table, and list(o) and listUnsynced(o) hold rows of o only
C5_OwnerScoping ==
    [][ForegroundCall =>
        /\ (/\ last'.op \in {"get_note", "update_note", "delete_note"}
            /\ last'.id \in DOMAIN notes
            /\ notes[last'.id].user_id # last'.user_id)
             => /\ notes' = notes
                /\ last'.ret = (IF last'.op = "delete_note" THEN FALSE ELSE None)
        /\ last'.op \in {"get_notes", "get_unsynced_notes"}
             => \A k \in DOMAIN last'.ret :
                   notes[last'.ret[k].id].user_id = last'.user_id]_vars

\* C5 witness: a delete of another owner's row has returned false
C5_Witness ==
    /\ last.op = "delete_note"
    /\ last.id \in DOMAIN notes
    /\ notes[last.id].user_id # last.user_id
    /\ last.ret = FALSE
    /\ \E id \in DOMAIN notes : notes[id].user_id = last.user_id

\* C6: AdoptRemote. After a sync cycle (no foreground call in between) in which
\* a push was answered with a 409 carrying a remote note of a higher version,
\* the local row has the remote's title, content, tags and version and is synced
C6_AdoptRemote ==
    [][QuietCycleEnds =>
        \A k \in DOMAIN answers' :
           (IsConflict(answers'[k]) /\ answers'[k].body[1].version > sent'[k].version)
           => LET row == notes'[sent'[k].id]
                  remote == answers'[k].body[1]
              IN /\ row.title = remote.title
                 /\ row.content = remote.content
                 /\ SplitTags(row.tags) = remote.tags
                 /\ row.version = remote.version
                 /\ ~Unsynced(notes', sent'[k].id)]_vars

\* rows the latest cycle created
NewRows == (began.rows + 1)..Len(notes)

\* C7: Fork. After a sync cycle (no foreground call in between) with one push,
\* answered with a 409 carrying a remote note of the same version and another
\* content, exactly one new row is a copy of the local note titled
\* "<title> (Conflict Copy)" and the original row has the remote's content
C7_Fork ==
    [][(QuietCycleEnds /\ Len(answers') = 1) =>
        \A k \in DOMAIN answers' :
           (/\ IsConflict(answers'[k])
            /\ answers'[k].body[1].version = sent'[k].version
            /\ answers'[k].body[1].content # notes[sent'[k].id].content)
           => LET id == sent'[k].id
                  remote == answers'[k].body[1]
                  copies == {j \in NewRows' :
                               /\ notes'[j].title = notes[id].title \o " (Conflict Copy)"
                               /\ notes'[j].content = notes[id].content
                               /\ notes'[j].tags = notes[id].tags
                               /\ notes'[j].user_id = notes[id].user_id}
              IN /\ Cardinality(copies) = 1
                 /\ notes'[id].content = remote.content]_vars

\* C8: RepushLocal. In a sync cycle in which a push was answered with a 409
\* carrying a remote note of a lower version, the local note was sent again,
\* once: two requests for it in the cycle
C8_RepushLocalOnce ==
    [][(CycleEnds /\ outcome' = "pulled") =>
        \A k \in DOMAIN answers' :
           (IsConflict(answers'[k]) /\ answers'[k].body[1].version < sent'[k].version)
           => Cardinality({j \in DOMAIN sent' : sent'[j].id = sent'[k].id}) = 2]_vars

\* C9: no failure while one record is pushed aborts the cycle: when a cycle
\* ends, every record read at its start was sent and the pull has run
C9_FailureIsolation ==
    [][CycleEnds =>
        /\ outcome' = "pulled"
        /\ Len(answers') = began'.unsynced]_vars

\* C10: at most one thread runs _sync_loop at any time, and start_sync_loop
\* on a manager whose loop is running changes nothing
LoopsAlive == {l \in DOMAIN threads : IsAlive(l)}

C10_OneLoop ==
    [][/\ Cardinality(LoopsAlive') <= 1
       /\ \A c \in Callers :
            (StartCheck(c) /\ sync_thread # None /\ IsAlive(sync_thread[1]))
            => UNCHANGED <<storeVars, auth_token, is_online, stop_event, sync_thread,
                           threads, caller, cycleVars>>]_vars

\* C11: once stop_sync_loop has set the event (and no later start_sync_loop
\* has cleared it) a loop back at its `while` test starts no sync cycle, and
\* every loop eventually terminates, a loop in stop_event.wait without the
\* check interval having to pass; stop_sync_loop itself eventually returns,
\* whether or not the loop has ended
C11_StopEndsLoop ==
    /\ [][\A l \in DOMAIN threads :
             (stop_event /\ threads[l] = "top") => threads'[l] \in {"top", "dead"}]_vars
    /\ stop_event ~> (~stop_event \/ LoopsAlive = {})
    /\ (caller[1].pc = "join") ~> (caller[1].pc = "idle")

\* stop_sync_loop was called after a sync cycle had run and has returned; the
\* loop has ended
C11_Witness ==
    /\ asked = "stop"
    /\ stop_event
    /\ caller[1].pc = "idle"
    /\ outcome = "pulled"
    /\ threads # <<>>
    /\ LoopsAlive = {}

\* a step in which loop thread l, with the token set, passes its `while` test:
\* one tick
Tick(l) == threads[l] = "top" /\ threads'[l] # "top" /\ ~stop_event /\ auth_token # None

\* C12: on every tick with the token set, is_online becomes the result of the
\* tick's probe, a sync cycle begins in the tick exactly when the probe
\* succeeded (whether the manager was online before or not), and a tick whose
\* probe failed goes to the wait with no request sent
C12_TickSyncsIffOnline ==
    [][\A l \in DOMAIN threads : Tick(l) =>
          /\ \A probe \in BOOLEAN : LoopTop(l, probe) => is_online' = probe
          /\ is_online' <=> (/\ outcome' = "running"
                             /\ threads'[l] \in {"push", "pull"}
                             /\ sent' = <<>>
                             /\ cyc'.unsynced = get_unsynced_notes(notes, UserIdFromToken))
          /\ ~is_online' => (threads'[l] = "wait" /\ UNCHANGED <<sent, answers, outcome>>)]_vars

\* a sync cycle begun by a tick that was not the first to run one
C12_Witness ==
    /\ is_online
    /\ auth_token # None
    /\ outcome = "running"
    /\ began.rows > 0

\* C13: additive pull. When the GET /notes of a sync cycle is answered with 200
\* and a list, one local row is created for each remote note whose id matches
\* no local row of the owner and for no other, afterwards every remote note's
\* id is the id of a local row of the owner, and every row that existed before
\* is unchanged
C13_AdditivePull ==
    [][\A l \in DOMAIN threads, ans \in PullAnswers :
          (LoopPull(l, ans) /\ ans.status = 200) =>
             LET remote == ans.body[1]
                 owner == cyc.user_id
                 unmatched == {k \in DOMAIN remote : ~AnyRow(notes, remote[k].id, owner)}
             IN /\ Len(notes') = Len(notes) + Cardinality(unmatched)
                /\ \A k \in DOMAIN remote : AnyRow(notes', remote[k].id, owner)
                /\ \A id \in DOMAIN notes : notes'[id] = notes[id]]_vars

\* C14: a PUT that carries a version other than the stored version of the note
\* at the time its handler writes is answered 409 with the current note and
\* leaves the notes table unchanged, whatever other requests ran in between;
\* and a PUT answered 409 carries the current note and changes nothing
C14_StaleUpdateRejected ==
    [][\A r \in Requests :
          /\ (/\ reqs[r].pc = "write"
              /\ reqs'[r].pc = "idle"
              /\ reqs[r].data.version # None
              /\ LiveRow(notes, reqs[r].note_id, reqs[r].user_id)
              /\ notes[reqs[r].note_id].version # reqs[r].data.version[1])
             => /\ notes' = notes
                /\ reqs'[r].status = 409
                /\ reqs'[r].body = get_note(notes, reqs[r].note_id, reqs[r].user_id)
          /\ \A id \in NoteIds, data \in PutBodies :
                (AppUpdateNoteCheck(r, id, 1, data) /\ reqs'[r].status = 409)
                => /\ notes' = notes
                   /\ reqs'[r].body = get_note(notes, id, 1)]_vars

\* C15: a POST with an empty or missing title or content is answered 400 and
\* writes nothing, and after every step every row of the notes table has a
\* non-empty title and a non-empty content
C15_NoEmptyTitleOrContent ==
    [][/\ \A r \in Requests, data \in PostBodies :
            (AppCreateNote(r, 1, data) /\ (Falsy(data.title) \/ Falsy(data.content)))
            => (reqs'[r].status = 400 /\ notes' = notes)
       /\ \A id \in DOMAIN notes' :
            notes'[id].title # "" /\ notes'[id].content # ""]_vars

\* C16: a push that ends in a RequestException or in a status that is neither
\* success nor conflict is one request, leaves the notes table as it was with
\* the note still unsynced, and does not end the sync cycle; and the next sync
\* cycle sends the note again: when a cycle ends, no note whose push failed in
\* the cycle before it is left unsent
C16_FailedPushRetried ==
    [][/\ \A l \in DOMAIN threads, ans \in AllAnswers :
            (LoopPush(l, ans) /\ ans.status \in {0, 500})
            => /\ Len(sent') = Len(sent) + 1
               /\ notes' = notes
               /\ cyc.unsynced[cyc.i].id \in UnsyncedIds(notes', cyc.user_id)
               /\ outcome' = "running"
       /\ CycleEnds => owed' = {}]_vars

\* C17: when the push of a note is answered 200 and the note was updated or
\* deleted from the foreground after the sync cycle read it (its stored
\* version is no longer the version that was sent), the note is still
\* unsynced after the step that marks it synced
C17_EditStaysUnsynced ==
    [][\A l \in DOMAIN threads, ans \in AllAnswers :
          LET note == cyc.unsynced[cyc.i]
          IN (/\ LoopPush(l, ans)
              /\ ans.status = 200
              /\ notes[note.id].version # note.version)
             => note.id \in UnsyncedIds(notes', cyc.user_id)]_vars

\* the rows of the user that a pull created from remote note rn (and that
\* were not edited since): no other call stores rn's title and content
PulledFrom(ns, user_id, rn) ==
    {id \in DOMAIN ns : /\ ns[id].user_id = user_id
                        /\ ns[id].title = rn.title
                        /\ ns[id].content = rn.content}

\* C18: the pull is idempotent. A pull whose list holds a remote note that an
\* earlier pull already created a local row from creates no further row from
\* it, so each remote note gives rise to at most one local row
C18_PullIdempotent ==
    [][\A l \in DOMAIN threads, ans \in PullAnswers :
          (LoopPull(l, ans) /\ ans.status = 200) =>
             \A k \in DOMAIN ans.body[1] :
                LET rn == ans.body[1][k]
                IN /\ PulledFrom(notes, cyc.user_id, rn) # {}
                      => PulledFrom(notes', cyc.user_id, rn)
                            = PulledFrom(notes, cyc.user_id, rn)
                   /\ Cardinality(PulledFrom(notes', cyc.user_id, rn)) <= 1]_vars

\* the conflict copies of note id: rows of its user with its title and the
\* suffix that _create_conflict_copy adds
ConflictCopies(ns, id) ==
    {j \in DOMAIN ns : /\ ns[j].user_id = ns[id].user_id
                       /\ ns[j].title = ns[id].title \o " (Conflict Copy)"}

\* C19: a conflict is resolved once. When a sync cycle ends in which the push
\* of a note was answered 409 with a remote note of the same version, and no
\* foreground call was made since the cycle began, the note is no longer
\* unsynced (so that no later cycle raises the conflict again), and at no
\* cycle end does a note have more than one conflict copy
C19_ConflictResolvedOnce ==
    [][CycleEnds =>
        /\ QuietCycleEnds =>
             \A k \in DOMAIN answers' :
                (IsConflict(answers'[k]) /\ answers'[k].body[1].version = sent'[k].version)
                => sent'[k].id \notin UnsyncedIds(notes', UserIdFromToken)
        /\ \A id \in DOMAIN notes' : Cardinality(ConflictCopies(notes', id)) <= 1]_vars

\* C20: restart works. From the moment start_sync_loop returns until
\* stop_sync_loop is called again, a thread is running _sync_loop
C20_RestartWorks == asked = "start" => LoopsAlive # {}
====
